---- MODULE Spec2Model ----
(***************************************************************************)
(* A model of the radix tree of radix.go.  Nodes live in a heap of         *)
(* records addressed by node ids (Go pointers); every node owns a          *)
(* children map that is itself a heap object, because Remove makes two     *)
(* nodes share one map (child.children = subchild.children).               *)
(***************************************************************************)
EXTENDS Integers, Sequences, FiniteSets, Bags, TLC

\* ------------------------------------------------------------------ bounds
MaxLen == 3        \* longest key handed to an operation
MaxByte == 2       \* key bytes are drawn from 1..MaxByte
MaxValue == 2      \* present values are 1..MaxValue
MaxNodes == 3      \* live nodes besides the root
MaxNavNodes == 5   \* live nodes besides the root in the trees Insert alone builds
MaxNavValue == 1   \* those trees hold the values 1..MaxNavValue
MaxReaderNodes == 2 \* live nodes besides the root under the reader-keyed calls
MaxSplitNodes == 3  \* live nodes besides the root where a split runs in steps
MaxCalls == MaxNavNodes + 1 \* calls of f after which a NextDo loop is left alone

MaxKeySize == 512  \* the size of the buffer of readKey

Byte == 1..MaxByte
Value == 1..MaxValue
Nil == 0           \* the nil *Radix
NilValue == 0      \* the nil interface{} Value
Root == 1          \* the node made by New()

KeySet == UNION {[1..n -> Byte] : n \in 1..MaxLen}

\* ------------------------------------------------------------ pure helpers

\* key[from:] of Go, from counted from 0
Suffix(s, from) == SubSeq(s, from + 1, Len(s))

\* key[:to] of Go
Prefix(s, to) == SubSeq(s, 1, to)

RECURSIVE lcpLoop(_, _, _)
lcpLoop(key, bar, x) ==
    IF key[x + 1] = bar[x + 1]
    THEN IF x + 1 = Len(key) \/ x + 1 = Len(bar)
         THEN x + 1
         ELSE lcpLoop(key, bar, x + 1)
    ELSE x

\* longestCommonPrefix returns the common prefix and its length
longestCommonPrefixOneByte(key, bar) ==
    IF key = <<>> \/ bar = <<>>
    THEN [prefix |-> <<>>, end |-> 0]
    ELSE LET x == IF key[1] = bar[1] THEN 1 ELSE 0
         IN [prefix |-> Prefix(key, x), end |-> x]

longestCommonPrefix(key, bar) ==
    IF key = <<>> \/ bar = <<>>
    THEN [prefix |-> <<>>, end |-> 0]
    ELSE LET x == lcpLoop(key, bar, 0)
         IN [prefix |-> Prefix(key, x), end |-> x]

\* ------------------------------------------------------------------ state
VARIABLES
    heap,      \* sequence of Radix records; heap[p] is the node behind pointer p
    maps,      \* sequence of children maps; maps[i] : first byte -> node id
    stored,    \* history: the key -> value mapping the calls so far have built
    op,        \* the last call made on the root
    argKey,    \* its key
    argValue,  \* its value (insert only)
    argF,      \* the set of the values its predicate f holds of (findFunc only)
    old,       \* history: the value stored under argKey when the call was made
    before,    \* history: the tree when the call was made
    ret,       \* the node it returned (Nil for a nil result)
    exact,     \* the exact flag it returned (find only)
    panic,     \* the call panicked: the program has stopped
    funcfound, \* the funcfound flag it returned (findFunc only)
    asked,     \* the nodes whose Value findFunc gave to f, in the order of the calls
    cur,       \* NextDo: the node r of the loop still running, Nil otherwise
    calls,     \* NextDo: the nodes whose Value was handed to f, in order
    allKeys,   \* the bag of keys it returned (Keys only)
    split      \* the locals of an insert that is part-way through its split

\* no insert is part-way through a split
NoSplit == [pc |-> "none"]

vars == <<heap, maps, stored, op, argKey, argValue, argF, old, before, ret,
          exact, panic, funcfound, asked, cur, calls, allKeys, split>>

\* type Radix struct
Radix(children, key, parent, value) ==
    [children |-> children, key |-> key, parent |-> parent, Value |-> value]

\* New returns an initialized radix tree: an empty map, no key, no parent, no value
New == [heap |-> <<Radix(Root, <<>>, Nil, NilValue)>>, maps |-> << <<>> >>]

\* r.children of node r in tree T
Children(T, r) == T.maps[T.heap[r].children]

\* m[b] = x on the map object i
MapPut(T, i, b, x) ==
    [T EXCEPT !.maps[i] = (b :> x) @@ @]

\* delete(m, b) on the map object i
MapDelete(T, i, b) ==
    [T EXCEPT !.maps[i] = [c \in (DOMAIN @) \ {b} |-> @[c]]]

\* &Radix{make(map[byte]*Radix), key, parent, value}: a new node with a new map
Alloc(T, key, parent, value) ==
    LET id == Len(T.heap) + 1
    IN [heap |-> Append(T.heap, Radix(id, key, parent, value)),
        maps |-> Append(T.maps, <<>>)]

\* Key returns the full key under which r is stored
RECURSIVE Key(_, _)
Key(T, r) ==
    IF r = Nil THEN <<>> ELSE Key(T, T.heap[r].parent) \o T.heap[r].key

\* ------------------------------------------------ pointers and the collector
\* A Go pointer can only be compared and followed, and a node nothing refers
\* to any more is collected.  Nodes are therefore renumbered after every call
\* in the order a walk from the root (then from the returned node) meets
\* them: children by increasing byte, then the parent link.

\* the bytes of S in increasing order
RECURSIVE sortedBytes(_)
sortedBytes(S) ==
    IF S = {} THEN <<>>
    ELSE LET b == CHOOSE x \in S : \A y \in S : x <= y
         IN <<b>> \o sortedBytes(S \ {b})

RECURSIVE visit(_, _, _)
RECURSIVE visitAll(_, _, _)
visitAll(T, todo, seen) ==
    IF todo = <<>> THEN seen
    ELSE visitAll(T, Tail(todo), visit(T, Head(todo), seen))

visit(T, n, seen) ==
    IF n = Nil \/ (\E i \in 1..Len(seen) : seen[i] = n) THEN seen
    ELSE LET ch == Children(T, n)
             bs == sortedBytes(DOMAIN ch)
             kids == [i \in 1..Len(bs) |-> ch[bs[i]]]
         IN visitAll(T, kids \o <<T.heap[n].parent>>, Append(seen, n))

\* the tree T and the pointer p after collection and renumbering
Collect(T, p) ==
    LET order == visitAll(T, <<Root, p>>, <<>>)
        new(n) == IF n = Nil THEN Nil ELSE CHOOSE i \in 1..Len(order) : order[i] = n
        newMap(m) == CHOOSE i \in 1..Len(order) :
                        /\ T.heap[order[i]].children = m
                        /\ \A j \in 1..(i - 1) : T.heap[order[j]].children # m
        node(i) == T.heap[order[i]]
    IN [T |-> [heap |-> [i \in 1..Len(order) |->
                            Radix(newMap(node(i).children), node(i).key,
                                  new(node(i).parent), node(i).Value)],
               maps |-> [i \in 1..Len(order) |->
                            IF newMap(node(i).children) = i
                            THEN [b \in DOMAIN T.maps[node(i).children] |->
                                     new(T.maps[node(i).children][b])]
                            ELSE <<>>]],
        ret |-> new(p)]

\* ------------------------------------------------------------- operations
\* readKey: the bytes a Read on the reader yields, in a buffer of MaxKeySize
\* bytes that is returned whole; the empty string when nothing is read
readKey(content) ==
    IF Len(content) > 0
    THEN [i \in 1..MaxKeySize |-> IF i <= Len(content) THEN content[i] ELSE 0]
    ELSE <<>>


\* the assignment n.Value = value
setValueWrong(T, n, value) == T

setValue(T, n, value) == [T EXCEPT !.heap[n].Value = value]

\* the assignment child.key = child.key[prefixEnd:] of the split
shortenWrong(T, child, prefixEnd) == T

shorten(T, child, prefixEnd) ==
    [T EXCEPT !.heap[child].key = Suffix(@, prefixEnd)]

\* insert inserts the value into the tree with the specified key, r the receiver.
\* The result is the tree after the call and the node the call returns.
RECURSIVE insert(_, _, _, _)
insert(T, r, key, value) ==
    \* key[0] of an empty key: index out of range
    IF key = <<>> THEN [T |-> T, ret |-> Nil, panic |-> TRUE]
    ELSE IF key[1] \notin DOMAIN Children(T, r)
    THEN \* no child with the same starting letter: insert a new one
         LET id == Len(T.heap) + 1
             T1 == Alloc(T, key, r, value)
         IN [T |-> MapPut(T1, T.heap[r].children, key[1], id), ret |-> id,
             panic |-> FALSE]
    ELSE
    LET child == Children(T, r)[key[1]] IN
    IF key = T.heap[child].key
    THEN [T |-> setValue(T, child, value), ret |-> child, panic |-> FALSE]
    ELSE
    LET lcp == longestCommonPrefix(key, T.heap[child].key)
        commonPrefix == lcp.prefix
        prefixEnd == lcp.end
    IN
    IF commonPrefix = T.heap[child].key
    THEN insert(T, child, Suffix(key, prefixEnd), value)
    ELSE
    LET \* create new child node to replace current child
        newChild == Len(T.heap) + 1
        T1 == Alloc(T, commonPrefix, r, NilValue)
        \* replace child of current node with new child
        T2 == MapPut(T1, T1.heap[r].children, commonPrefix[1], newChild)
        \* shorten old key to the non-shared part
        T3 == shorten(T2, child, prefixEnd)
        \* map old child's new first letter to old child as a child of the new child
        T4 == MapPut(T3, T3.heap[newChild].children, T3.heap[child].key[1], child)
        T5 == [T4 EXCEPT !.heap[child].parent = newChild]
        \* if there are key left of key, insert them into our new child
        T6 == IF key # T5.heap[newChild].key
              THEN insert(T5, newChild, Suffix(key, prefixEnd), value).T
              ELSE setValue(T5, newChild, value)
    IN [T |-> T6, ret |-> newChild, panic |-> FALSE]

\* the loop "for r.Value == nil { if r.parent == nil { return nil }; r = r.parent }"
RECURSIVE upToValue(_, _)
upToValueWrong(T, r) ==
    IF T.heap[r].Value # NilValue THEN r ELSE T.heap[r].parent

upToValue(T, r) ==
    IF T.heap[r].Value # NilValue THEN r
    ELSE IF T.heap[r].parent = Nil THEN Nil
    ELSE upToValue(T, T.heap[r].parent)

\* find returns the node associated with key and the exact flag
RECURSIVE find(_, _, _)
findNoDescent(T, r, key) ==
    IF key = <<>> THEN [node |-> Nil, exact |-> FALSE]
    ELSE IF key[1] \notin DOMAIN Children(T, r)
    THEN [node |-> upToValue(T, r), exact |-> FALSE]
    ELSE
    LET child == Children(T, r)[key[1]] IN
    IF key = T.heap[child].key /\ T.heap[child].Value # NilValue
    THEN [node |-> child, exact |-> TRUE]
    ELSE [node |-> upToValue(T, r), exact |-> FALSE]

find(T, r, key) ==
    IF key = <<>> THEN [node |-> Nil, exact |-> FALSE]
    ELSE IF key[1] \notin DOMAIN Children(T, r)
    THEN [node |-> upToValue(T, r), exact |-> FALSE]
    ELSE
    LET child == Children(T, r)[key[1]] IN
    IF key = T.heap[child].key
    THEN IF T.heap[child].Value # NilValue
         THEN [node |-> child, exact |-> TRUE]
         ELSE [node |-> upToValue(T, child), exact |-> FALSE]
    ELSE
    LET lcp == longestCommonPrefix(key, T.heap[child].key) IN
    \* if child.key is not completely contained in key, abort
    IF T.heap[child].key # lcp.prefix
    THEN [node |-> upToValue(T, r), exact |-> FALSE]
    ELSE find(T, child, Suffix(key, lcp.end))

\* the call f(r.Value) of findFunc; F is the set of the values f holds of
offerWrong(F, value) == TRUE

offer(F, value) == value \in F

\* findFunc works just like find, but each non-nil Value of each node traversed
\* is given to f. given collects the nodes whose Value has been given to f.
RECURSIVE findFunc(_, _, _, _, _)
findFunc(T, r, key, F, given) ==
    IF key = <<>>
    THEN [node |-> Nil, exact |-> FALSE, funcfound |-> FALSE, asked |-> given]
    ELSE
    LET asked1 == IF T.heap[r].Value # NilValue THEN Append(given, r) ELSE given IN
    IF T.heap[r].Value # NilValue /\ offer(F, T.heap[r].Value)
    THEN [node |-> r, exact |-> FALSE, funcfound |-> TRUE, asked |-> asked1]
    ELSE IF key[1] \notin DOMAIN Children(T, r)
    THEN [node |-> upToValue(T, r), exact |-> FALSE, funcfound |-> FALSE,
          asked |-> asked1]
    ELSE
    LET child == Children(T, r)[key[1]] IN
    IF key = T.heap[child].key
    THEN IF T.heap[child].Value # NilValue
         THEN [node |-> child, exact |-> TRUE, funcfound |-> FALSE,
               asked |-> asked1]
         ELSE [node |-> upToValue(T, child), exact |-> FALSE,
               funcfound |-> FALSE, asked |-> asked1]
    ELSE
    LET lcp == longestCommonPrefix(key, T.heap[child].key) IN
    \* if child.key is not completely contained in key, abort
    IF T.heap[child].key # lcp.prefix
    THEN [node |-> upToValue(T, r), exact |-> FALSE, funcfound |-> FALSE,
          asked |-> asked1]
    ELSE findFunc(T, child, Suffix(key, lcp.end), F, asked1)

\* the switch of Remove on the end node child of r, reached with key
removeNodeWrong(T, r, child, key) == MapDelete(T, T.heap[r].children, key[1])

\* the same switch without the assignment child.Value = nil of its default case
removeNodeKeepsValue(T, r, child, key) ==
    LET n == Cardinality(DOMAIN Children(T, child)) IN
    IF n = 0 THEN MapDelete(T, T.heap[r].children, key[1])
    ELSE IF n = 1
    THEN LET subchild == CHOOSE s \in {Children(T, child)[b] : b \in DOMAIN Children(T, child)} : TRUE
         IN [T EXCEPT !.heap[child] =
                Radix(T.heap[subchild].children,
                      T.heap[child].key \o T.heap[subchild].key,
                      r,
                      T.heap[subchild].Value)]
    ELSE T

\* the same switch with "child.key = subchild.key" in its case 1
removeNodeDropsKey(T, r, child, key) ==
    LET n == Cardinality(DOMAIN Children(T, child)) IN
    IF n = 0 THEN MapDelete(T, T.heap[r].children, key[1])
    ELSE IF n = 1
    THEN LET subchild == CHOOSE s \in {Children(T, child)[b] : b \in DOMAIN Children(T, child)} : TRUE
         IN [T EXCEPT !.heap[child] =
                Radix(T.heap[subchild].children,
                      T.heap[subchild].key,
                      r,
                      T.heap[subchild].Value)]
    ELSE [T EXCEPT !.heap[child].Value = NilValue]

removeNode(T, r, child, key) ==
    LET n == Cardinality(DOMAIN Children(T, child)) IN
    IF n = 0 THEN MapDelete(T, T.heap[r].children, key[1])
    ELSE IF n = 1
    THEN LET subchild == CHOOSE s \in {Children(T, child)[b] : b \in DOMAIN Children(T, child)} : TRUE
         IN [T EXCEPT !.heap[child] =
                Radix(T.heap[subchild].children,
                      T.heap[child].key \o T.heap[subchild].key,
                      r,
                      T.heap[subchild].Value)]
    ELSE [T EXCEPT !.heap[child].Value = NilValue]

\* the test "key == child.key" that ends the descent of Remove
isEndNodeWrong(key, childKey) == longestCommonPrefix(key, childKey).prefix = key

isEndNode(key, childKey) == key = childKey

\* Remove removes any value set to key; it returns the removed node or nil
RECURSIVE Remove(_, _, _)
Remove(T, r, key) ==
    \* key[0] of an empty key: index out of range
    IF key = <<>> THEN [T |-> T, ret |-> Nil, panic |-> TRUE]
    ELSE IF key[1] \notin DOMAIN Children(T, r)
    THEN [T |-> T, ret |-> Nil, panic |-> FALSE]
    ELSE
    LET child == Children(T, r)[key[1]] IN
    \* if the correct end node is found...
    IF isEndNode(key, T.heap[child].key)
    THEN [T |-> removeNode(T, r, child, key), ret |-> child, panic |-> FALSE]
    ELSE
    LET lcp == longestCommonPrefix(key, T.heap[child].key) IN
    IF T.heap[child].key # lcp.prefix
    THEN [T |-> T, ret |-> Nil, panic |-> FALSE]
    ELSE Remove(T, child, Suffix(key, lcp.end))

\* Len computes the number of (value-bearing) nodes in the radix tree r
RECURSIVE RadixLen(_, _)
RECURSIVE sumLen(_, _)
sumLen(T, S) ==
    IF S = {} THEN 0
    ELSE LET c == CHOOSE x \in S : TRUE
         IN RadixLen(T, c) + sumLen(T, S \ {c})

RadixLen(T, r) ==
    IF r = Nil THEN 0
    ELSE (IF T.heap[r].Value # NilValue THEN 1 ELSE 0)
         + sumLen(T, {Children(T, r)[b] : b \in DOMAIN Children(T, r)})

\* keys: the full key of r unless it is empty (the root), followed by the keys
\* of the children; the order of the children is the iteration order of the
\* map, so the slice is kept as a bag
RECURSIVE keys(_, _, _)
RECURSIVE appendKeys(_, _, _)
appendKeys(T, S, fullkey) ==
    IF S = {} THEN EmptyBag
    ELSE LET c == CHOOSE x \in S : TRUE
         IN keys(T, c, fullkey \o T.heap[c].key) (+) appendKeys(T, S \ {c}, fullkey)

keysWrong(T, r, fullkey) ==
    SetToBag({fullkey})
        (+) appendKeys(T, {Children(T, r)[b] : b \in DOMAIN Children(T, r)}, fullkey)

keys(T, r, fullkey) ==
    (IF fullkey # <<>> THEN SetToBag({fullkey}) ELSE EmptyBag)
        (+) appendKeys(T, {Children(T, r)[b] : b \in DOMAIN Children(T, r)}, fullkey)

\* Keys returns all the keys from the node r and downwards
Keys(T, r) == keys(T, r, Key(T, r))

\* the keys "test", "tester", "team" and "te" as bytes
test == <<116, 101, 115, 116>>

tester == <<116, 101, 115, 116, 101, 114>>

team == <<116, 101, 97, 109>>

te == <<116, 101>>

\* radixtree of the tests: the four keys inserted into an empty tree
radixtree ==
    LET T1 == insert(New, Root, test, 1).T
        T2 == insert(T1, Root, tester, 1).T
        T3 == insert(T2, Root, team, 1).T
    IN insert(T3, Root, te, 1).T

\* ------------------------------------------------------------- navigation
\* a call that returns the node n, and a call that panics (a nil pointer is
\* dereferenced or a key is indexed out of range)
Returns(n) == [node |-> n, panic |-> FALSE]

Panics == [node |-> Nil, panic |-> TRUE]

\* the map lookup m[b], nil when b is not a key of m
MapGet(m, b) == IF b \in DOMAIN m THEN m[b] ELSE Nil

\* the least and the greatest element of a non-empty set of bytes
minByte(S) == CHOOSE x \in S : \A y \in S : x <= y

maxByte(S) == CHOOSE x \in S : \A y \in S : y <= x

\* smallestSuccessor gets the smallest key of m that is larger than key
smallestSuccessor(m, key) ==
    LET S == {k \in DOMAIN m : k > key}
    IN [neighbor |-> IF S = {} THEN 0 ELSE minByte(S), found |-> S # {}]

\* leftMostChild: the smallest key of m, 255 for an empty map
leftMostChild(m) == minByte(DOMAIN m \cup {255})

\* largestPredecessor gets the largest key of m that is smaller than key
largestPredecessor(m, key) ==
    LET S == {k \in DOMAIN m : k < key}
    IN [neighbor |-> IF S = {} THEN 0 ELSE maxByte(S), found |-> S # {}]

\* rightMostChild: the largest key of m, 0 for an empty map
rightMostChild(m) == maxByte(DOMAIN m \cup {0})

\* the loop "for ret.Value == nil { ret = ret.children[leftMostChild(ret.children)] }"
RECURSIVE leftMostValued(_, _)
leftMostValued(T, n) ==
    IF n = Nil THEN Panics
    ELSE IF T.heap[n].Value # NilValue THEN Returns(n)
    ELSE leftMostValued(T, MapGet(Children(T, n), leftMostChild(Children(T, n))))

\* "for _, x := range r.children { return x }": the iteration order of a map
\* is not fixed, any child can come first
anyChild(T, r) == {Returns(Children(T, r)[b]) : b \in DOMAIN Children(T, r)}

\* next goes up in the tree to look for nodes with a neighbor; the result is
\* the set of the outcomes the call can have
RECURSIVE next(_, _)
next(T, r) ==
    LET parent == T.heap[r].parent IN
    IF parent = Nil /\ DOMAIN Children(T, r) # {} THEN anyChild(T, r)
    ELSE IF parent = Nil THEN {Panics}
    ELSE
    LET s == smallestSuccessor(Children(T, parent), T.heap[r].key[1]) IN
    IF s.found
    THEN LET n == Children(T, parent)[s.neighbor] IN
         \* a single test, where Next has a loop
         IF T.heap[n].Value = NilValue
         THEN {Returns(MapGet(Children(T, n), leftMostChild(Children(T, n))))}
         ELSE {Returns(n)}
    ELSE next(T, parent)

\* Next returns the next node in the tree; the result is the set of the
\* outcomes the call can have
RadixNext(T, r) ==
    LET parent == T.heap[r].parent IN
    IF Len(T.heap[r].key) = 0 THEN {Returns(Nil)}
    ELSE IF parent = Nil /\ DOMAIN Children(T, r) # {} THEN anyChild(T, r)
    ELSE IF DOMAIN Children(T, r) = {}
    THEN IF parent = Nil THEN {Panics}
         ELSE
         LET s == smallestSuccessor(Children(T, parent), T.heap[r].key[1]) IN
         IF s.found
         THEN {leftMostValued(T, Children(T, parent)[s.neighbor])}
         ELSE next(T, r)
    ELSE {leftMostValued(T, Children(T, r)[leftMostChild(Children(T, r))])}

\* prev: "for len(r.children) != 0 { r = r.children[rightMostChild(r.children)] }"
RECURSIVE prev(_, _)
prev(T, r) ==
    IF DOMAIN Children(T, r) = {} THEN r
    ELSE prev(T, Children(T, r)[rightMostChild(Children(T, r))])

\* the loop of Prev that goes up to the first node with a value, and from a
\* root without one down to the right-most leaf
RECURSIVE upPrev(_, _)
upPrev(T, r) ==
    IF T.heap[r].Value # NilValue THEN r
    ELSE IF T.heap[r].parent = Nil THEN prev(T, r)
    ELSE upPrev(T, T.heap[r].parent)

\* Prev returns the previous node in the tree; the result is the set of the
\* outcomes the call can have
Prev(T, r) ==
    LET parent == T.heap[r].parent IN
    IF Len(T.heap[r].key) = 0 THEN {Returns(Nil)}
    ELSE IF parent = Nil /\ DOMAIN Children(T, r) # {} THEN anyChild(T, r)
    ELSE IF parent = Nil THEN {Panics}
    ELSE
    LET l == largestPredecessor(Children(T, parent), T.heap[r].key[1]) IN
    IF l.found
    THEN {Returns(prev(T, Children(T, parent)[l.neighbor]))}
    ELSE {Returns(upPrev(T, parent))}

\* ------------------------------------------------------------ observations
\* p is a prefix of k
IsPrefix(p, k) == Len(p) <= Len(k) /\ SubSeq(k, 1, Len(p)) = p

\* the child nodes held in the children map of n
Kids(T, n) == {Children(T, n)[b] : b \in DOMAIN Children(T, n)}

\* the nodes at and below r, each with the concatenation of the fragments on
\* the way down to it when r is reached with pre
RECURSIVE Below(_, _, _)
Below(T, r, pre) ==
    {[node |-> r, path |-> pre]}
        \cup UNION {Below(T, c, pre \o T.heap[c].key) : c \in Kids(T, r)}

Entries(T) == Below(T, Root, <<>>)

\* the node the way down from the root reaches with exactly key, Nil when none
NodeAt(T, key) ==
    IF \E e \in Entries(T) : e.path = key
    THEN (CHOOSE e \in Entries(T) : e.path = key).node
    ELSE Nil

\* the result of find(key) on the root is an exact hit carrying value
FindsExactly(T, key, value) ==
    LET f == find(T, Root, key)
    IN f.exact /\ f.node # Nil /\ T.heap[f.node].Value = value

\* ---------------------------------------------------------------- actions
Tree == [heap |-> heap, maps |-> maps]

\* the value the calls so far have stored under key, NilValue when none
StoredValue(key) == IF key \in DOMAIN stored THEN stored[key] ELSE NilValue

\* the caller holds no result of an earlier call
Idle == op \in {"New", "idle"}

Init ==
    /\ heap = New.heap
    /\ maps = New.maps
    /\ stored = <<>>
    /\ op = "New"
    /\ argKey = <<>>
    /\ argValue = NilValue
    /\ old = NilValue
    /\ before = New
    /\ ret = Nil
    /\ exact = FALSE
    /\ panic = FALSE
    /\ argF = {}
    /\ funcfound = FALSE
    /\ asked = <<>>
    /\ cur = Nil
    /\ calls = <<>>
    /\ allKeys = EmptyBag
    /\ split = NoSplit

\* the call has no result beyond ret, exact and panic
NoMore ==
    /\ argF' = {}
    /\ funcfound' = FALSE
    /\ asked' = <<>>
    /\ cur' = Nil
    /\ calls' = <<>>
    /\ allKeys' = EmptyBag
    /\ split' = NoSplit

\* the call returns (no panic) and has no result beyond ret and exact
Plain ==
    /\ panic' = FALSE
    /\ NoMore

\* a call r.insert(key, value) on the root with a materialized non-empty key
DoInsert ==
    /\ Idle
    /\ \E key \in KeySet, value \in Value :
        LET call == insert(Tree, Root, key, value)
            res == Collect(call.T, call.ret) IN
        /\ Len(res.T.heap) <= MaxNodes + 1
        /\ heap' = res.T.heap
        /\ maps' = res.T.maps
        /\ stored' = (key :> value) @@ stored
        /\ op' = "insert"
        /\ argKey' = key
        /\ argValue' = value
        /\ old' = StoredValue(key)
        /\ before' = Tree
        /\ ret' = res.ret
        /\ exact' = FALSE
        /\ Plain

\* a call r.find(key) on the root
DoFind ==
    /\ Idle
    /\ \E key \in KeySet :
        LET res == find(Tree, Root, key) IN
        /\ op' = "find"
        /\ argKey' = key
        /\ argValue' = NilValue
        /\ old' = StoredValue(key)
        /\ before' = Tree
        /\ ret' = res.node
        /\ exact' = res.exact
        /\ Plain
        /\ UNCHANGED <<heap, maps, stored>>

\* the state after a call r.Remove(key) on the root
Removed(key) ==
    LET call == Remove(Tree, Root, key)
        res == Collect(call.T, call.ret) IN
    /\ heap' = res.T.heap
    /\ maps' = res.T.maps
    /\ stored' = [k \in (DOMAIN stored) \ {key} |-> stored[k]]
    /\ op' = "Remove"
    /\ argKey' = key
    /\ argValue' = NilValue
    /\ old' = StoredValue(key)
    /\ before' = Collect(Tree, Nil).T
    /\ ret' = res.ret
    /\ exact' = FALSE
    /\ panic' = call.panic
    /\ NoMore

\* a call r.Remove(key) on the root
DoRemove ==
    /\ Idle
    /\ \E key \in KeySet : Removed(key)

\* the caller makes its last Remove call a second time (TestRemove)
DoRemoveAgain ==
    /\ op = "Remove"
    /\ Removed(argKey)

\* the caller drops the result of its last call
Discard ==
    /\ ~Idle
    /\ ~panic
    /\ cur = Nil
    /\ split = NoSplit
    /\ LET res == Collect(Tree, Nil) IN
        /\ heap' = res.T.heap
        /\ maps' = res.T.maps
        /\ before' = res.T
    /\ op' = "idle"
    /\ argKey' = <<>>
    /\ argValue' = NilValue
    /\ old' = NilValue
    /\ ret' = Nil
    /\ exact' = FALSE
    /\ Plain
    /\ UNCHANGED stored

\* the value-bearing nodes of the tree with their keys: the nodes a caller
\* gets from Find
Valued(T) == {e \in Entries(T) : T.heap[e.node].Value # NilValue}

\* a call n.Next() on a value-bearing node n of the tree
DoNext ==
    /\ Idle
    /\ \E e \in Valued(Tree) : \E res \in RadixNext(Tree, e.node) :
        /\ op' = "Next"
        /\ argKey' = e.path
        /\ argValue' = NilValue
        /\ old' = StoredValue(e.path)
        /\ before' = Tree
        /\ ret' = res.node
        /\ exact' = FALSE
        /\ panic' = res.panic
        /\ NoMore
        /\ UNCHANGED <<heap, maps, stored>>

\* a call n.Prev() on a value-bearing node n of the tree
DoPrev ==
    /\ Idle
    /\ \E e \in Valued(Tree) : \E res \in Prev(Tree, e.node) :
        /\ op' = "Prev"
        /\ argKey' = e.path
        /\ argValue' = NilValue
        /\ old' = StoredValue(e.path)
        /\ before' = Tree
        /\ ret' = res.node
        /\ exact' = FALSE
        /\ panic' = res.panic
        /\ NoMore
        /\ UNCHANGED <<heap, maps, stored>>

\* the caller goes on with Prev on the node Next returned: n.Next().Prev()
DoNextPrev ==
    /\ op = "Next" /\ ~panic /\ ret # Nil
    /\ \E res \in Prev(Tree, ret) :
        /\ op' = "Next.Prev"
        /\ ret' = res.node
        /\ panic' = res.panic
        /\ NoMore
        /\ UNCHANGED <<heap, maps, stored, argKey, argValue, old, before, exact>>

\* the caller goes on with Next on the node Prev returned: n.Prev().Next()
DoPrevNext ==
    /\ op = "Prev" /\ ~panic /\ ret # Nil
    /\ \E res \in RadixNext(Tree, ret) :
        /\ op' = "Prev.Next"
        /\ ret' = res.node
        /\ panic' = res.panic
        /\ NoMore
        /\ UNCHANGED <<heap, maps, stored, argKey, argValue, old, before, exact>>

Next == DoInsert \/ DoFind \/ DoRemove \/ DoRemoveAgain \/ DoNext \/ DoPrev \/ Discard

Spec == Init /\ [][Next]_vars

\* a call r.insert(key, value) on the root of a tree that only insert builds
NavInsert ==
    /\ Idle
    /\ \E key \in KeySet, value \in 1..MaxNavValue :
        LET call == insert(Tree, Root, key, value)
            res == Collect(call.T, call.ret) IN
        /\ Len(res.T.heap) <= MaxNavNodes + 1
        /\ heap' = res.T.heap
        /\ maps' = res.T.maps
        /\ stored' = (key :> value) @@ stored
        /\ op' = "insert"
        /\ argKey' = key
        /\ argValue' = value
        /\ old' = StoredValue(key)
        /\ before' = Tree
        /\ ret' = res.ret
        /\ exact' = FALSE
        /\ Plain

\* NextDo from "r = r.Next()" to the test "r.Key() != k" of its loop, after f
\* has been called on the nodes in done, the last of them n. When Next returns
\* nil the test lets the loop go on and f(r.Value) dereferences nil.
Advance(n, k, done) ==
    \E res \in RadixNext(Tree, n) :
        /\ calls' = done
        /\ panic' = (res.panic \/ res.node = Nil)
        /\ cur' = IF ~panic' /\ Key(Tree, res.node) # k THEN res.node ELSE Nil
        /\ op' = IF cur' # Nil THEN "NextDo loop" ELSE "NextDo"
        /\ argKey' = k
        /\ argValue' = NilValue
        /\ argF' = {}
        /\ old' = NilValue
        /\ before' = Tree
        /\ ret' = Nil
        /\ exact' = FALSE
        /\ funcfound' = FALSE
        /\ asked' = <<>>
        /\ allKeys' = EmptyBag
        /\ split' = NoSplit
        /\ UNCHANGED <<heap, maps, stored>>

\* a call r.NextDo(f) on the root, up to the first test of its loop
NextDoStart ==
    /\ Idle
    /\ IF DOMAIN Children(Tree, Root) = {}
       THEN /\ op' = "NextDo"
            /\ argKey' = <<>>
            /\ argValue' = NilValue
            /\ old' = NilValue
            /\ before' = Tree
            /\ ret' = Nil
            /\ exact' = FALSE
            /\ Plain
            /\ UNCHANGED <<heap, maps, stored>>
       ELSE \* "for _, x := range r.children { r = x }": any child can come last
            \E first \in anyChild(Tree, Root) :
                Advance(first.node, Key(Tree, first.node), <<first.node>>)

\* one round of the loop of NextDo: f(r.Value), r = r.Next(), the test
NextDoStep ==
    /\ op = "NextDo loop"
    /\ Len(calls) < MaxCalls
    /\ Advance(cur, argKey, Append(calls, cur))

NextNav ==
    \/ NavInsert
    \/ DoNext
    \/ DoPrev
    \/ DoNextPrev
    \/ DoPrevNext
    \/ NextDoStart
    \/ NextDoStep
    \/ Discard

\* a call r.findFunc(key, f) on the root; f holds of the values in F
DoFindFunc ==
    /\ Idle
    /\ \E key \in KeySet, F \in SUBSET Value :
        LET res == findFunc(Tree, Root, key, F, <<>>) IN
        /\ op' = "findFunc"
        /\ argKey' = key
        /\ argValue' = NilValue
        /\ argF' = F
        /\ old' = StoredValue(key)
        /\ before' = Tree
        /\ ret' = res.node
        /\ exact' = res.exact
        /\ panic' = FALSE
        /\ funcfound' = res.funcfound
        /\ asked' = res.asked
        /\ cur' = Nil
        /\ calls' = <<>>
        /\ allKeys' = EmptyBag
        /\ split' = NoSplit
        /\ UNCHANGED <<heap, maps, stored>>

\* a call r.Keys() on the root
DoKeys ==
    /\ Idle
    /\ op' = "Keys"
    /\ argKey' = <<>>
    /\ argValue' = NilValue
    /\ argF' = {}
    /\ old' = NilValue
    /\ before' = Tree
    /\ ret' = Nil
    /\ exact' = FALSE
    /\ panic' = FALSE
    /\ funcfound' = FALSE
    /\ asked' = <<>>
    /\ cur' = Nil
    /\ calls' = <<>>
    /\ allKeys' = Keys(Tree, Root)
    /\ split' = NoSplit
    /\ UNCHANGED <<heap, maps, stored>>

NextQuery == DoInsert \/ DoRemove \/ DoFindFunc \/ DoKeys \/ Discard

\* the trees insert and Remove build, queried with findFunc and Keys
SpecQuery == Init /\ [][NextQuery]_vars

\* a call r.insert(key, value) that builds the tree of the reader-keyed calls
ReaderBuild ==
    /\ Idle
    /\ \E key \in KeySet, value \in Value :
        LET call == insert(Tree, Root, key, value)
            res == Collect(call.T, call.ret) IN
        /\ Len(res.T.heap) <= MaxReaderNodes + 1
        /\ heap' = res.T.heap
        /\ maps' = res.T.maps
        /\ stored' = (key :> value) @@ stored
        /\ op' = "insert"
        /\ argKey' = key
        /\ argValue' = value
        /\ old' = StoredValue(key)
        /\ before' = Tree
        /\ ret' = res.ret
        /\ exact' = FALSE
        /\ Plain

\* a call r.Insert(reader, value) on the root; content is what the reader holds
DoInsertReader ==
    /\ Idle
    /\ \E content \in KeySet \cup {<<>>}, value \in Value :
        LET key == readKey(content)
            call == IF key # <<>>
                    THEN [T |-> Tree, ret |-> Nil, panic |-> FALSE]
                    ELSE insert(Tree, Root, key, value)
            res == Collect(call.T, call.ret) IN
        /\ heap' = res.T.heap
        /\ maps' = res.T.maps
        /\ stored' = stored
        /\ op' = "Insert"
        /\ argKey' = content
        /\ argValue' = value
        /\ old' = StoredValue(content)
        /\ before' = Tree
        /\ ret' = res.ret
        /\ exact' = FALSE
        /\ panic' = call.panic
        /\ NoMore

\* a call r.Find(reader) on the root
DoFindReader ==
    /\ Idle
    /\ \E content \in KeySet \cup {<<>>} :
        LET res == find(Tree, Root, readKey(content)) IN
        /\ op' = "Find"
        /\ argKey' = content
        /\ argValue' = NilValue
        /\ old' = StoredValue(content)
        /\ before' = Tree
        /\ ret' = res.node
        /\ exact' = res.exact
        /\ Plain
        /\ UNCHANGED <<heap, maps, stored>>

\* a call r.Remove(key) on the root, the empty key included
DoRemoveAny ==
    /\ Idle
    /\ \E key \in KeySet \cup {<<>>} : Removed(key)

NextReader ==
    ReaderBuild \/ DoInsertReader \/ DoFindReader \/ DoRemoveAny \/ Discard

\* the calls that take their key from a reader or from the caller unchecked
SpecReader == Init /\ [][NextReader]_vars

\* the trees Insert alone builds, walked with Next and Prev
SpecNav == Init /\ [][NextNav]_vars

\* PrevDo from "r = r.Prev()" to the test "r.Key() != k" of its loop, after f
\* has been called on the nodes in done, the last of them n
Retreat(n, k, done) ==
    \E res \in Prev(Tree, n) :
        /\ calls' = done
        /\ panic' = (res.panic \/ res.node = Nil)
        /\ cur' = IF ~panic' /\ Key(Tree, res.node) # k THEN res.node ELSE Nil
        /\ op' = IF cur' # Nil THEN "PrevDo loop" ELSE "PrevDo"
        /\ argKey' = k
        /\ argValue' = NilValue
        /\ argF' = {}
        /\ old' = NilValue
        /\ before' = Tree
        /\ ret' = Nil
        /\ exact' = FALSE
        /\ funcfound' = FALSE
        /\ asked' = <<>>
        /\ allKeys' = EmptyBag
        /\ split' = NoSplit
        /\ UNCHANGED <<heap, maps, stored>>

\* a call r.PrevDo(f) on the root, up to the first test of its loop
PrevDoStart ==
    /\ Idle
    /\ IF DOMAIN Children(Tree, Root) = {}
       THEN /\ op' = "PrevDo"
            /\ argKey' = <<>>
            /\ argValue' = NilValue
            /\ old' = NilValue
            /\ before' = Tree
            /\ ret' = Nil
            /\ exact' = FALSE
            /\ Plain
            /\ UNCHANGED <<heap, maps, stored>>
       ELSE \* "for _, x := range r.children { r = x }": any child can come last
            \E first \in anyChild(Tree, Root) :
                Retreat(first.node, Key(Tree, first.node), <<first.node>>)

\* one round of the loop of PrevDo: f(r.Value), r = r.Prev(), the test
PrevDoStep ==
    /\ op = "PrevDo loop"
    /\ Len(calls) < MaxCalls
    /\ Retreat(cur, argKey, Append(calls, cur))

NextWalk ==
    \/ DoInsert
    \/ DoRemove
    \/ NextDoStart
    \/ NextDoStep
    \/ PrevDoStart
    \/ PrevDoStep
    \/ Discard

\* the trees Insert and Remove build, walked with NextDo and PrevDo
SpecWalk == Init /\ [][NextWalk]_vars

NextBuilt == NavInsert \/ DoFind \/ Discard

\* the trees Insert alone builds, searched with find
SpecBuilt == Init /\ [][NextBuilt]_vars

\* ------------------------------------------- the split of insert, in steps

\* the receiver, child and remaining key at which insert(key, value) called
\* on r comes to split a child, NoSplit when the call splits none
RECURSIVE splitSite(_, _, _)
splitSite(T, r, key) ==
    IF key = <<>> \/ key[1] \notin DOMAIN Children(T, r) THEN NoSplit
    ELSE
    LET child == Children(T, r)[key[1]] IN
    IF key = T.heap[child].key THEN NoSplit
    ELSE
    LET lcp == longestCommonPrefix(key, T.heap[child].key) IN
    IF lcp.prefix = T.heap[child].key
    THEN splitSite(T, child, Suffix(key, lcp.end))
    ELSE [pc |-> "shorten", r |-> r, child |-> child,
          newChild |-> Len(T.heap) + 1, key |-> key,
          commonPrefix |-> lcp.prefix, prefixEnd |-> lcp.end]

\* newChild := &Radix{make(map[byte]*Radix), commonPrefix, r, nil} and
\* r.children[commonPrefix[0]] = newChild
replaceChild(T, sp) ==
    LET T1 == Alloc(T, sp.commonPrefix, sp.r, NilValue) IN
    MapPut(T1, T1.heap[sp.r].children, sp.commonPrefix[1], sp.newChild)

\* newChild.children[child.key[0]] = child
linkChildWrong(T, sp) == T

linkChild(T, sp) ==
    MapPut(T, T.heap[sp.newChild].children, T.heap[sp.child].key[1], sp.child)

\* child.parent = newChild
reparent(T, sp) == [T EXCEPT !.heap[sp.child].parent = sp.newChild]

\* if key != newChild.key { newChild.insert(key[prefixEnd:], value) }
\* else { newChild.Value = value }
insertRest(T, sp, value) ==
    IF sp.key # T.heap[sp.newChild].key
    THEN insert(T, sp.newChild, Suffix(sp.key, sp.prefixEnd), value).T
    ELSE setValue(T, sp.newChild, value)

\* a call r.insert(key, value) on the root that splits a child runs up to and
\* including its first write the other goroutines can see
SplitBegin ==
    /\ Idle
    /\ \E key \in KeySet, value \in Value :
        LET sp == splitSite(Tree, Root, key)
            T1 == replaceChild(Tree, sp)
            whole == Collect(insert(Tree, Root, key, value).T, Nil).T IN
        /\ sp # NoSplit
        /\ Len(whole.heap) <= MaxSplitNodes + 1
        /\ heap' = T1.heap
        /\ maps' = T1.maps
        /\ split' = [fullKey |-> key, value |-> value] @@ sp
        /\ op' = "insert in steps"
        /\ argKey' = key
        /\ argValue' = value
        /\ old' = StoredValue(key)
        /\ before' = Tree
        /\ ret' = Nil
        /\ exact' = FALSE
        /\ panic' = FALSE
        /\ argF' = {}
        /\ funcfound' = FALSE
        /\ asked' = <<>>
        /\ cur' = Nil
        /\ calls' = <<>>
        /\ allKeys' = EmptyBag
        /\ UNCHANGED stored

\* the writes of the split that follow, one at a time
SplitStep ==
    /\ split # NoSplit
    /\ ~panic
    /\ split.pc \in {"shorten", "link", "parent"}
    /\ LET T1 == CASE split.pc = "shorten" ->
                        shorten(Tree, split.child, split.prefixEnd)
                   [] split.pc = "link" -> linkChild(Tree, split)
                   [] split.pc = "parent" -> reparent(Tree, split)
       IN /\ heap' = T1.heap
          /\ maps' = T1.maps
    /\ split' = [split EXCEPT !.pc = CASE @ = "shorten" -> "link"
                                       [] @ = "link" -> "parent"
                                       [] @ = "parent" -> "rest"]
    /\ UNCHANGED <<stored, op, argKey, argValue, argF, old, before, ret,
                   exact, panic, funcfound, asked, cur, calls, allKeys>>

\* the split stores the value and the call returns newChild
SplitEnd ==
    /\ split # NoSplit
    /\ ~panic
    /\ split.pc = "rest"
    /\ LET res == Collect(insertRest(Tree, split, split.value), split.newChild)
       IN /\ heap' = res.T.heap
          /\ maps' = res.T.maps
          /\ ret' = res.ret
    /\ stored' = (split.fullKey :> split.value) @@ stored
    /\ op' = "insert"
    /\ argKey' = split.fullKey
    /\ argValue' = split.value
    /\ old' = StoredValue(split.fullKey)
    /\ exact' = FALSE
    /\ Plain
    /\ UNCHANGED before

\* another goroutine calls r.find(key) on the root while the split is under
\* way. Nothing orders its reads after the writes of the split: it is a data
\* race, whose outcomes are the result of find on the tree as the writes so
\* far have left it, or a fault.
FindInSplit ==
    /\ split # NoSplit
    /\ ~panic
    /\ \E key \in KeySet, fault \in BOOLEAN :
        LET res == find(Tree, Root, key) IN
        /\ op' = "find in split"
        /\ argKey' = key
        /\ ret' = IF fault THEN Nil ELSE res.node
        /\ exact' = IF fault THEN FALSE ELSE res.exact
        /\ panic' = fault
    /\ UNCHANGED <<heap, maps, stored, argValue, argF, old, before, funcfound,
                   asked, cur, calls, allKeys, split>>

\* an insert that splits no child, or splits one with no other goroutine in
\* between
SplitInsert ==
    /\ Idle
    /\ \E key \in KeySet, value \in Value :
        LET call == insert(Tree, Root, key, value)
            res == Collect(call.T, call.ret) IN
        /\ Len(res.T.heap) <= MaxSplitNodes + 1
        /\ heap' = res.T.heap
        /\ maps' = res.T.maps
        /\ stored' = (key :> value) @@ stored
        /\ op' = "insert"
        /\ argKey' = key
        /\ argValue' = value
        /\ old' = StoredValue(key)
        /\ before' = Tree
        /\ ret' = res.ret
        /\ exact' = FALSE
        /\ Plain

NextSplit ==
    SplitInsert \/ SplitBegin \/ SplitStep \/ SplitEnd \/ FindInSplit
        \/ DoFind \/ Discard

\* inserts whose split other goroutines can watch, and the finds that run
\* between calls
SpecSplit == Init /\ [][NextSplit]_vars

\* ------------------------------------------------------------------ claims

\* C1: round trip. A find on a key the insert calls so far have stored (and no
\* Remove has taken out since) returns exact = true and a node whose Value is
\* the value inserted for that key.
C1_RoundTrip ==
    (op = "find" /\ argKey \in DOMAIN stored)
        => (exact /\ ret # Nil /\ heap[ret].Value = stored[argKey])

\* C1 witness: with two keys stored, a find on one of them has returned
C1_Witness ==
    /\ op = "find"
    /\ argKey \in DOMAIN stored
    /\ Cardinality(DOMAIN stored) >= 2
    /\ exact
    /\ heap[ret].Value = stored[argKey]

\* C2: idempotent re-insert. An insert of a key that is already stored, with a
\* different value, adds no node and leaves Len unchanged, and a find on the
\* key then returns exact = true with the latest value.
C2_ReInsert ==
    (op = "insert" /\ old \notin {NilValue, argValue})
        => /\ RadixLen(Tree, Root) = RadixLen(before, Root)
           /\ Cardinality(Entries(Tree)) = Cardinality(Entries(before))
           /\ FindsExactly(Tree, argKey, argValue)

\* C2 witness: an insert has overwritten the value of a stored key by another
C2_Witness ==
    /\ op = "insert"
    /\ old \notin {NilValue, argValue}
    /\ heap[ret].Value = argValue

\* C3: insert returns the node it just inserted: the full key of the returned
\* node is the inserted key and its Value is the inserted value.
C3_InsertReturnsInserted ==
    op = "insert" => (ret # Nil /\ Key(Tree, ret) = argKey /\ heap[ret].Value = argValue)

\* C4: find never returns a hollow node: a node returned by find carries a
\* present value, and exact is true exactly when the full key of that node is
\* the key searched.
C4_FindNeverHollow ==
    (op = "find" /\ ret # Nil)
        => /\ heap[ret].Value # NilValue
           /\ exact <=> (Key(Tree, ret) = argKey)

\* the way down from the root holds no node for key
NoExactNode(T, key) == NodeAt(T, key) = Nil

\* the node at which the descent for key stops: the deepest node whose path is
\* a prefix of key
StopNode(T, key) ==
    (CHOOSE e \in Entries(T) :
        /\ IsPrefix(e.path, key)
        /\ \A d \in Entries(T) : IsPrefix(d.path, key) => Len(d.path) <= Len(e.path)).node

\* the parent links from n upward, n first
RECURSIVE ParentChain(_, _)
ParentChain(T, n) ==
    IF n = Nil THEN <<>> ELSE <<n>> \o ParentChain(T, T.heap[n].parent)

\* the first node of the parent chain of n that carries a value, Nil when none
NearestValued(T, n) ==
    LET chain == ParentChain(T, n)
        valued == {i \in 1..Len(chain) : T.heap[chain[i]].Value # NilValue}
    IN IF valued = {} THEN Nil
       ELSE chain[CHOOSE i \in valued : \A j \in valued : i <= j]

\* the value-bearing proper ancestor of key nearest to it on the way down from
\* the root, Nil when none
NearestAncestor(T, key) ==
    LET above == {e \in Entries(T) : /\ IsPrefix(e.path, key)
                                     /\ e.path # key
                                     /\ T.heap[e.node].Value # NilValue}
    IN IF above = {} THEN Nil
       ELSE (CHOOSE e \in above : \A d \in above : Len(d.path) <= Len(e.path)).node

\* C5 as claimed: a find on a key with no matching path returns the nearest
\* value-bearing ancestor, and absent only when the tree holds no entry.
C5_AbsentOnlyWhenEmpty ==
    (op = "find" /\ NoExactNode(Tree, argKey))
        => IF RadixLen(Tree, Root) = 0
           THEN ret = Nil
           ELSE ret # Nil /\ ret = NearestAncestor(Tree, argKey)

\* C5 as amended: a find on a key with no matching path returns, with exact =
\* false, the nearest value-bearing node on the parent chain of the node where
\* the descent stopped, and absent whenever that chain carries no value, which
\* is the case in the empty tree but in non-empty trees too.
C5_NearestOrAbsent ==
    (op = "find" /\ NoExactNode(Tree, argKey))
        => /\ ~exact
           /\ ret = NearestValued(Tree, StopNode(Tree, argKey))
           /\ (RadixLen(Tree, Root) = 0 => ret = Nil)

\* C5 witness: a find with no matching path has returned absent on a tree
\* that holds an entry
C5_Witness ==
    /\ op = "find"
    /\ NoExactNode(Tree, argKey)
    /\ ret = Nil
    /\ RadixLen(Tree, Root) > 0

\* C6: Remove of a stored key returns a node whose Value is the value that
\* was stored under the key before the call.
C6_RemoveReturnsFormerValue ==
    (op = "Remove" /\ old # NilValue)
        => (ret # Nil /\ heap[ret].Value = old)

\* C7: a Remove of a key for which the way down holds no exact node returns
\* absent and leaves every node's fragment, value, children map and parent
\* link as they were.
C7_RemoveMissLeavesTree ==
    (op = "Remove" /\ NoExactNode(before, argKey))
        => /\ ret = Nil
           /\ Collect(Tree, Nil).T = before

\* C7 witness: a Remove has returned absent for a key that is a proper prefix
\* of a stored key, on a way down that stops inside a child's fragment
C7_Witness ==
    /\ op = "Remove"
    /\ ret = Nil
    /\ NoExactNode(before, argKey)
    /\ \E k \in DOMAIN stored : IsPrefix(argKey, k)

\* C8: after a Remove has removed a stored key, a second Remove of the same
\* key returns absent.
C8_SecondRemoveAbsent ==
    [][(op = "Remove" /\ old # NilValue /\ op' = "Remove" /\ argKey' = argKey)
        => ret' = Nil]_vars

\* C9: Remove(key) removes exactly that key: afterwards find(key) is not an
\* exact hit, and every other key stored before the call is still found
\* exactly with its value.
C9_RemoveExactlyKey ==
    op = "Remove"
        => /\ ~find(Tree, Root, argKey).exact
           /\ \A k \in KeySet \ {argKey} :
                 \/ find(before, Root, k).exact = FALSE
                 \/ FindsExactly(Tree, k, before.heap[find(before, Root, k).node].Value)
           /\ \A k \in DOMAIN stored : FindsExactly(Tree, k, stored[k])

\* C9 witness: a Remove has collapsed the node of a stored key into its only
\* child, and both the child's key and a third key are still stored
C9_Witness ==
    /\ op = "Remove"
    /\ old # NilValue
    /\ ret # Nil
    /\ Key(Tree, ret) # argKey
    /\ IsPrefix(argKey, Key(Tree, ret))
    /\ Cardinality(DOMAIN stored) >= 2

\* C10: Len() is the number of keys currently stored, value-less nodes not
\* counted; a Remove of a stored key whose node has two or more children
\* decreases Len by one and leaves the node in the tree.
C10_LenConsistent ==
    /\ RadixLen(Tree, Root) = Cardinality(DOMAIN stored)
    /\ (/\ op = "Remove"
        /\ old # NilValue
        /\ Cardinality(Kids(before, NodeAt(before, argKey))) >= 2)
        => /\ RadixLen(Tree, Root) = RadixLen(before, Root) - 1
           /\ NodeAt(Tree, argKey) # Nil
           /\ Kids(Tree, NodeAt(Tree, argKey)) = Kids(before, NodeAt(before, argKey))
           /\ heap[NodeAt(Tree, argKey)].Value = NilValue

\* C10 witness: a Remove has cleared the value of a stored key whose node has
\* two children, and Len counts the two entries left
C10_Witness ==
    /\ op = "Remove"
    /\ old # NilValue
    /\ ret # Nil
    /\ Cardinality(Kids(Tree, ret)) >= 2
    /\ heap[ret].Value = NilValue
    /\ RadixLen(Tree, Root) = 2

\* a comes before b in byte order
KeyLess(a, b) ==
    \E i \in 1..Len(b) :
        /\ i <= Len(a) + 1
        /\ SubSeq(a, 1, i - 1) = SubSeq(b, 1, i - 1)
        /\ IF i = Len(a) + 1 THEN TRUE ELSE a[i] < b[i]

\* the keys of the value-bearing nodes of T
ValuedKeys(T) == {e.path : e \in Valued(T)}

\* the least and the greatest of a non-empty set of keys, in byte order
minKey(S) == CHOOSE k \in S : \A j \in S : j = k \/ KeyLess(k, j)

maxKey(S) == CHOOSE k \in S : \A j \in S : j = k \/ KeyLess(j, k)

\* the key that follows key on the ring of the stored keys of T
RingNext(T, key) ==
    LET larger == {k \in ValuedKeys(T) : KeyLess(key, k)}
    IN IF larger # {} THEN minKey(larger) ELSE minKey(ValuedKeys(T))

\* the key that precedes key on the ring of the stored keys of T
RingPrev(T, key) ==
    LET smaller == {k \in ValuedKeys(T) : KeyLess(k, key)}
    IN IF smaller # {} THEN maxKey(smaller) ELSE maxKey(ValuedKeys(T))

\* C11: ordering ring of Next. In a tree with two or more value-bearing
\* entries, Next on a stored node returns the stored node with the next larger
\* full key in byte order, and on the node with the largest key the node with
\* the smallest: repeated Next visits every entry once, in increasing order,
\* before it is back at the start.
C11_NextRing ==
    (op = "Next" /\ Cardinality(Valued(Tree)) >= 2)
        => (~panic /\ ret # Nil /\ ret = NodeAt(Tree, RingNext(Tree, argKey)))

\* C12: Prev mirrors Next. In a tree with two or more entries, Prev on a
\* stored node returns the stored entry with the largest full key smaller than
\* the node's key, and on the entry with the smallest key the entry with the
\* largest.
C12_PrevRing ==
    (op = "Prev" /\ Cardinality(Valued(Tree)) >= 2)
        => (~panic /\ ret # Nil /\ ret = NodeAt(Tree, RingPrev(Tree, argKey)))

\* C13: Next and Prev are inverse. On a tree built by Insert, Next and Prev on
\* a value-bearing node r return a node, and r.Next().Prev() and
\* r.Prev().Next() have the full key of r.
C13_NextPrevInverse ==
    /\ op \in {"Next", "Prev"} => (~panic /\ ret # Nil)
    /\ op \in {"Next.Prev", "Prev.Next"}
        => (~panic /\ ret # Nil /\ Key(Tree, ret) = argKey)

\* C14: single-entry self-reference. In a tree with exactly one value-bearing
\* entry, Next and Prev on that entry both return that entry.
C14_SingleEntrySelf ==
    (op \in {"Next", "Prev"} /\ Cardinality(Valued(Tree)) = 1)
        => (~panic /\ ret # Nil /\ ret = NodeAt(Tree, argKey))

\* C15: Next does not return nodes whose Value is nil. On a tree built by
\* Insert, Next on a stored node returns a node, and that node carries a value.
C15_NextNeverHollow ==
    op = "Next" => (~panic /\ ret # Nil /\ heap[ret].Value # NilValue)

\* C16: an empty key is not a fatal error. Insert, Find and Remove called on
\* the root with an empty key return an absent result without a panic and
\* leave the tree as it was; Insert with a non-empty key stores the entry.
C16_EmptyKeyHarmless ==
    /\ (op \in {"Insert", "Find", "Remove"} /\ argKey = <<>>)
        => (~panic /\ ret = Nil /\ Tree = before)
    /\ (op = "Insert" /\ argKey # <<>>)
        => FindsExactly(Tree, argKey, argValue)

\* the values of the nodes in asked
AskedValues == {heap[asked[i]].Value : i \in 1..Len(asked)}

\* C17: FindFunc agrees with Find when the predicate never matches. If f
\* returns false for every value it is given, findFunc returns the node and the
\* exact flag that find returns for the same tree and key, and funcfound is
\* false.
C17_FindFuncAsFind ==
    (op = "findFunc" /\ AskedValues \cap argF = {})
        => LET f == find(Tree, Root, argKey)
           IN ret = f.node /\ exact = f.exact /\ ~funcfound

\* C17 witness: f was given a value, held of none it was given although it
\* holds of some value, and the search ended on a node
C17_Witness ==
    /\ op = "findFunc"
    /\ argF # {}
    /\ asked # <<>>
    /\ AskedValues \cap argF = {}
    /\ ret # Nil

\* the value-bearing nodes on the way down from the root for key, the node
\* reached with exactly key included, each with its path
OnPath(T, key) == {e \in Valued(T) : IsPrefix(e.path, key)}

\* the nodes on the way down for key whose Value f holds of
Hits(T, key, F) == {e \in OnPath(T, key) : T.heap[e.node].Value \in F}

\* C18: FindFunc short-circuit. Every value-bearing node on the path from the
\* root down to and including the node where the search for key ends is given
\* to f; when f holds of one of them, the first such node in root-to-leaf
\* order is returned with exact = false and funcfound = true; exact and
\* funcfound are never both true.
C18_ShortCircuit ==
    op = "findFunc" =>
        /\ ~(exact /\ funcfound)
        /\ LET hits == Hits(Tree, argKey, argF) IN
           IF hits = {} THEN ~funcfound
           ELSE LET first == CHOOSE e \in hits :
                                \A d \in hits : Len(e.path) <= Len(d.path)
                IN ret = first.node /\ ~exact /\ funcfound

\* C19: NextDo on the root of a tree built by Insert is a key-sorted full
\* enumeration. f is never called for a value-less node and the walk does not
\* panic; when NextDo has returned, f has been called once for each stored
\* entry, in increasing byte order of the full keys, the smallest first.
C19_NextDoSorted ==
    op \in {"NextDo", "NextDo loop"} =>
        /\ ~panic
        /\ \A i \in 1..Len(calls) : heap[calls[i]].Value # NilValue
        /\ op = "NextDo" =>
            /\ {calls[i] : i \in 1..Len(calls)} = {e.node : e \in Valued(Tree)}
            /\ \A i, j \in 1..Len(calls) :
                i < j => KeyLess(Key(Tree, calls[i]), Key(Tree, calls[j]))

\* the non-root nodes of T with their paths
NonRoot(T) == {e \in Entries(T) : e.node # Root}

\* C20: Keys on the root returns exactly one full key (the fragments from the
\* root down to the node, concatenated) per non-root node of the tree,
\* value-bearing or not, and never the root's empty key; every stored key is
\* in the result exactly once; for the insertions test, tester, team, te the
\* result is exactly those four keys.
C20_KeysPerNode ==
    op = "Keys" =>
        /\ BagToSet(allKeys) = {e.path : e \in NonRoot(Tree)}
        /\ \A k \in BagToSet(allKeys) :
            CopiesIn(k, allKeys) = Cardinality({e \in NonRoot(Tree) : e.path = k})
        /\ \A k \in BagToSet(allKeys) : CopiesIn(k, allKeys) = 1
        /\ <<>> \notin BagToSet(allKeys)
        /\ \A k \in DOMAIN stored : CopiesIn(k, allKeys) = 1
        /\ Keys(radixtree, Root) = SetToBag({test, tester, team, te})

\* C20 witness: Keys has returned the keys of a tree with a value-less branch
\* node, the key of that node among them
C20_Witness ==
    /\ op = "Keys"
    /\ \E e \in NonRoot(Tree) :
        /\ heap[e.node].Value = NilValue
        /\ e.path \notin DOMAIN stored
        /\ CopiesIn(e.path, allKeys) = 1
    /\ Cardinality(DOMAIN stored) >= 2

\* C21: the compression invariant is restored by Remove. When a Remove call
\* has returned, the tree holds no non-root node that has exactly one child
\* and no value - the parent of a leaf the call has just detached included.
C21_RemoveRestoresCompression ==
    op = "Remove" =>
        \A e \in NonRoot(Tree) :
            ~(/\ heap[e.node].Value = NilValue
              /\ Cardinality(DOMAIN Children(Tree, e.node)) = 1)

\* every entry of a children map of T is stored under the first byte of the
\* fragment of the child, and that fragment is not empty
MapsByFirstByte(T) ==
    \A e \in Entries(T) : \A b \in DOMAIN Children(T, e.node) :
        LET c == Children(T, e.node)[b] IN
        /\ T.heap[c].key # <<>>
        /\ T.heap[c].key[1] = b

\* C22: the children-map invariant. In every state insert and Remove reach,
\* every non-root node of the tree has a non-empty key fragment and every
\* entry of a children map is stored under the first byte of the fragment of
\* the child (so siblings differ in their first bytes), the nodes a split
\* creates and a collapse rewrites included.
C22_ChildrenByFirstByte ==
    /\ MapsByFirstByte(Tree)
    /\ \A e \in NonRoot(Tree) : heap[e.node].key # <<>>

\* C22 witness: Remove has collapsed a value-bearing node into its single
\* child, whose fragment was appended to the fragment of the node
C22_Witness ==
    /\ op = "Remove"
    /\ ret # Nil
    /\ Cardinality(DOMAIN Children(before, NodeAt(before, argKey))) = 1
    /\ before.heap[NodeAt(before, argKey)].Value # NilValue
    /\ Len(heap[ret].key) >= 2

\* C23: parent links stay consistent with the children maps. In every state
\* insert and Remove reach, each node held in the children map of a node n has
\* parent = n, and for every node of the tree Key() is the concatenation of the
\* fragments on the way down from the root - also for the nodes beneath a
\* collapsed position; a find that is exact returns a node whose Key() is the
\* key searched.
C23_ParentLinksConsistent ==
    /\ \A e \in Entries(Tree) : \A c \in Kids(Tree, e.node) :
        heap[c].parent = e.node
    /\ \A e \in Entries(Tree) : Key(Tree, e.node) = e.path
    /\ (op = "find" /\ exact) => Key(Tree, ret) = argKey

\* the split run in steps leaves the tree the call insert leaves
SplitStepsAsInsert ==
    (op = "insert" /\ before # Tree) =>
        Tree = Collect(insert(before, Root, argKey, argValue).T, Nil).T

\* C24: the split of insert is a sequence of separate writes with nothing to
\* order a concurrent reader after them. A find that runs between calls, with
\* no insert part-way through, finds every stored key exactly and with its
\* value; the read that loses this is the one made while a split is under way
\* (the witness: find of a stored key comes back absent).
C24_SerializedFindExact ==
    (op = "find" /\ argKey \in DOMAIN stored) =>
        /\ split = NoSplit
        /\ exact
        /\ ret # Nil
        /\ heap[ret].Value = stored[argKey]

C24_Witness ==
    /\ op = "find in split"
    /\ ~panic
    /\ argKey \in DOMAIN stored
    /\ ~exact
    /\ ret = Nil

\* the stored keys that are prefixes of key
StoredPrefixes(key) == {k \in DOMAIN stored : IsPrefix(k, key)}

\* the longest of a non-empty set of prefixes of one key
Longest(P) == CHOOSE k \in P : \A j \in P : Len(j) <= Len(k)

\* C25: on a tree built by insert alone with present values, find(key) returns
\* the node of the longest stored key that is a prefix of key, with exact set
\* just when that is key itself, and returns nil just when no stored key is a
\* prefix of key.
C25_FindLongestPrefix ==
    op = "find" =>
        IF StoredPrefixes(argKey) = {}
        THEN ret = Nil /\ ~exact
        ELSE LET k == Longest(StoredPrefixes(argKey)) IN
             /\ ret # Nil
             /\ ret = NodeAt(Tree, k)
             /\ heap[ret].Value = stored[k]
             /\ exact = (k = argKey)

C25_Witness ==
    /\ op = "find"
    /\ argKey \notin DOMAIN stored
    /\ NodeAt(Tree, argKey) # Nil
    /\ heap[NodeAt(Tree, argKey)].Value = NilValue
    /\ ret # Nil
    /\ Key(Tree, ret) = Longest(StoredPrefixes(argKey))

\* the tree that inserting the keys of K with their stored values into an
\* empty tree leaves, the keys taken in byte order
RECURSIVE InsertAll(_)
InsertAll(K) ==
    IF K = {} THEN New
    ELSE LET k == maxKey(K)
         IN insert(InsertAll(K \ {k}), Root, k, stored[k]).T

\* C26: whatever the order in which insert has stored the keys, the tree is
\* the one that inserting them in byte order builds (the same nodes,
\* fragments, values and parent and child links), and every non-root node
\* without a value has at least two children.
C26_OrderIndependent ==
    /\ Collect(Tree, Nil).T = Collect(InsertAll(DOMAIN stored), Nil).T
    /\ \A e \in NonRoot(Tree) :
        heap[e.node].Value = NilValue =>
            Cardinality(DOMAIN Children(Tree, e.node)) >= 2

\* the last insert stored a key that sorts before one stored earlier and split
\* a node on the way, in a tree of three keys or more
C26_Witness ==
    /\ op = "insert"
    /\ Cardinality(DOMAIN stored) >= 3
    /\ argKey \notin ValuedKeys(before)
    /\ \E k \in ValuedKeys(before) : KeyLess(argKey, k)
    /\ splitSite(before, Root, argKey) # NoSplit
    /\ \E e \in NonRoot(Tree) : heap[e.node].Value = NilValue

\* C27: NextDo and PrevDo on the root of a tree that Insert and Remove have
\* built never fault: no Next or Prev step of the walk dereferences nil, and
\* none returns the nil that the test of the loop then dereferences.
C27_WalksNeverFault ==
    op \in {"NextDo", "NextDo loop", "PrevDo", "PrevDo loop"} => ~panic

====
